---------------------------- MODULE Spec2Model ----------------------------
(***************************************************************************)
(* A model of vader_cluster_parallel.py: the disk pool partitioner         *)
(* (pool_disks), the threaded dispatcher (run_disks / remote_worker_code), *)
(* the encounter resolver (resolve_encounter) and the evolution loop of    *)
(* main.                                                                   *)
(*                                                                         *)
(* Units.  Lengths are integers in milli-au, masses in 5e-6 MSun, times in *)
(* units of 250 yr (dt = 1000 yr = 4).  The inputs are drawn from         *)
(* grids on which every quantity the code computes is an exact integer:    *)
(* periastron distances are multiples of 300 milli-au  (so 0.49*p and      *)
(* p/3 * 2^k are exact) and particle masses are in ratios that are powers  *)
(* of 32 (so that (m_self/m_other)^0.2 is a power of 2).                   *)
(*                                                                         *)
(* Three specifications share the variables:                               *)
(*   SpecPool      pool_disks as a pure function of its arguments,         *)
(*   SpecDispatch  one run_disks call with its worker threads interleaved, *)
(*   Spec          the evolution loop of main with encounters.             *)
(***************************************************************************)
EXTENDS Integers, Sequences, FiniteSets, TLC

VARIABLES
    \* ---- pool_disks call (SpecPool)
    pool_arg,        \* the `disks` argument: a sequence of disk references
    pool_cores,      \* the `N_cores` argument
    pool_result,     \* the returned disks_pooled
    pool_pc,         \* "call" | "returned"
    \* ---- shared program state
    viscous_codes,   \* the list of VADER codes: code index -> [Tm]
    disks,           \* the list of Disk objects: index -> record
    \* ---- run_disks call (SpecDispatch)
    rd_disks,        \* the `disks` argument of run_disks: sequence of indices into disks
    rd_dt,           \* the `dt` argument
    rd_pc,           \* position of the calling thread in run_disks
    rd_i,            \* loop variable i of run_disks (1-based)
    disks_pooled,    \* local disks_pooled of run_disks
    code_queue,      \* items of the global Queue.Queue
    unfinished_tasks,\* the queue's count of put() minus task_done()
    workers,         \* thread started in iteration i -> [pc, disks, viscous, dt, k]
    evolve_count,    \* disk index -> completed evolve_disk_for calls in this run_disks call
    disks0,          \* the disks as they were when run_disks was called
    \* ---- main (Spec)
    stars,           \* the global particle set: star key -> record
    gravity,         \* the gravity code: particle radii, model time, stopping condition
    stellar_time,    \* model time of the stellar evolution code
    t,               \* simulation time of the loop
    t_end,           \* configured end time
    dt,              \* the loop's step
    active_disks,    \* counter of disks that are not dispersed
    pc,              \* position of main in the loop
    truncated,       \* indices of the disks whose truncate() the last resolve_encounter called
    encounters_left, \* encounters the gravity code will still report in this run
    evaluated,       \* keys handed to total_radiation / photoevaporation_mass_loss in this step
    euv_flagged,     \* keys whose single_total_radiation task set EUV in this step
    euv_added,       \* keys whose single_photoevaporation_mass_loss task added the EUV term
    copied_encounter,\* the pair and the geometry that the positions and velocities `stars`
                     \* holds give: those of the last channel_from_gravity_to_framework.copy()
    resolved_geom,   \* the geometry periastron_distance worked on in the last resolve_encounter
    save_interval,   \* the save_interval option
    saved,           \* whether the last completed step wrote a snapshot
    \* ---- luminosity_fit call (SpecLum)
    lum_mass,        \* the `mass` argument, in units of 0.01 MSun
    lum_result       \* the returned luminosity, None before the call

poolVars == <<pool_arg, pool_cores, pool_result, pool_pc>>
sharedVars == <<viscous_codes, disks>>
dispVars == <<rd_disks, rd_dt, rd_pc, rd_i, disks_pooled, code_queue,
              unfinished_tasks, workers, evolve_count, disks0>>
stepVars == <<evaluated, euv_flagged, euv_added>>
drainVars == <<copied_encounter, resolved_geom>>
saveVars == <<save_interval, saved>>
mainVars == <<stars, gravity, stellar_time, t, t_end, dt, active_disks, pc,
              truncated, encounters_left, stepVars, drainVars, saveVars>>
lumVars == <<lum_mass, lum_result>>
vars == <<poolVars, sharedVars, dispVars, mainVars, lumVars>>

---------------------------------------------------------------------------
(* Bounds of the model *)

MaxPoolDisks == 4      \* longest disk sequence handed to pool_disks in SpecPool
MaxPoolCores == 4      \* largest N_cores in SpecPool
MaxDisks == 3          \* most Disk objects in SpecDispatch
MaxCodes == 3          \* most VADER codes (ncodes) in SpecDispatch
MaxTEnd == 4           \* largest t_end in Spec, in units of 500 yr
MaxEncounters == 2     \* most encounters the gravity code reports in one run of Spec
MaxFairEncounters == 1 \* most encounters the gravity code reports in one run of SpecFair
MaxDrainTEnd == 1      \* t_end in SpecDrain, in units of 500 yr
MaxFairTEnd == 3       \* largest t_end in SpecFair, in units of 500 yr
MaxLumMass == 2100     \* largest mass handed to luminosity_fit in SpecLum, in 0.01 MSun

(* Program constants *)

DT == 4                \* dt = 1000 yr, in units of 250 yr
T_INI == 0             \* default of the t_ini option
NCODES == 10           \* default of the ncodes parameter of main
SAVE_INTERVAL == 20    \* default of the save_interval option, 5000 yr

Min(a, b) == IF a < b THEN a ELSE b
Max(a, b) == IF a > b THEN a ELSE b

None == [none |-> TRUE]

---------------------------------------------------------------------------
(* pool_disks *)

\* Python's s[a:b] for 0 <= a: the elements with 0-based index a <= k < b,
\* clamped to the length of s.
Slice_short(s, a, b) == SubSeq(s, Min(a, Len(s)) + 1, Min(b - 1, Len(s)))
Slice(s, a, b) == SubSeq(s, Min(a, Len(s)) + 1, Min(b, Len(s)))

\* The branch on `counter < n` that sets DIFF.
PoolDiff_le(N, n, counter) == IF counter <= n THEN N + 1 ELSE N
PoolDiff(N, n, counter) == IF counter < n THEN N + 1 ELSE N

\* One iteration of `for i in range(N_cores)`, then the rest of the loop.
RECURSIVE PoolLoop(_, _, _, _, _, _)
PoolLoop(dsk, N_cores, i, MIN, counter, pooled) ==
    IF i >= N_cores THEN pooled
    ELSE LET N == Len(dsk) \div N_cores
             n == Len(dsk) % N_cores
             DIFF == PoolDiff(N, n, counter)
             counter2 == IF counter < n THEN counter + 1 ELSE counter
         IN  PoolLoop(dsk, N_cores, i + 1, MIN + DIFF, counter2,
                      Append(pooled, Slice(dsk, MIN, MIN + DIFF)))

pool_disks(dsk, N_cores) == PoolLoop(dsk, N_cores, 0, 0, 0, <<>>)

\* Sequences without repetition over S of length at most n (lists of distinct objects).
InjSeqs(S, n) ==
    UNION {{s \in [1..k -> S] : \A a, b \in 1..k : a # b => s[a] # s[b]} : k \in 0..n}

RECURSIVE Flatten(_)
Flatten(ss) == IF ss = <<>> THEN <<>> ELSE Head(ss) \o Flatten(Tail(ss))

Range(s) == {s[k] : k \in DOMAIN s}

---------------------------------------------------------------------------
(* setup_disks_and_codes and the Disk class *)

\* Integer fourth root.
IRoot4(n) == CHOOSE k \in 0..200 : k * k * k * k <= n /\ n < (k + 1) * (k + 1) * (k + 1) * (k + 1)

\* Integer square root.
ISqrt(n) == CHOOSE k \in 0..46340 : k * k <= n /\ n < (k + 1) * (k + 1)

\* Tm = 100 * (stellar_mass / MSun) ** (1/4) K, rounded down to whole K
\* (stellar_mass in 5e-6 MSun: 100 * (m * 5e-6)^(1/4) = (m * 500)^(1/4)).
ThermalParameter(stellar_mass) == IRoot4(stellar_mass * 500)

\* number_of_vaders as setup_disks_and_codes clips it.
NumberOfVaders(ncodes, stellar_masses) ==
    IF ncodes < Len(stellar_masses) THEN ncodes ELSE Len(stellar_masses)

\* The codes: code i is given the thermal parameter of stellar_masses[i].
SetupCodes_sameTm(ncodes, stellar_masses) ==
    [i \in 1..NumberOfVaders(ncodes, stellar_masses) |->
        [Tm |-> ThermalParameter(stellar_masses[1])]]
SetupCodes(ncodes, stellar_masses) ==
    [i \in 1..NumberOfVaders(ncodes, stellar_masses) |->
        [Tm |-> ThermalParameter(stellar_masses[i])]]

\* Disk(key, radius, mass, stellar mass, ...): a fresh, unbound, undispersed disk.
NewDisk(key, radius, mass, stellar_mass) ==
    [key |-> key, disk_radius |-> radius, disk_mass |-> mass,
     central_mass |-> stellar_mass, dispersed |-> FALSE,
     outer_photoevap_rate |-> 0, viscous |-> 0]

\* Disk.evolve_disk_for(dt) on the code the disk is bound to: the gas mass drops
\* by the external photoevaporation rate times dt, the disk spreads viscously at
\* a rate set by the code's thermal parameter, and a disk left without mass is
\* dispersed.
evolve_disk_for(disk, code, step) ==
    LET mass == Max(0, disk.disk_mass - disk.outer_photoevap_rate * step)
    IN  [disk EXCEPT !.disk_mass = mass,
                     !.disk_radius = disk.disk_radius + code.Tm * step,
                     !.dispersed = disk.dispersed \/ mass = 0]

---------------------------------------------------------------------------
(* luminosity_fit *)

\* coefficient * mass ** power, LSun, of segment number `segment`: the
\* coefficient is coef * 10^(coef_exp - 5), the power is in units of 1e-4 and
\* the mass in 0.01 MSun.
PowerLaw(segment, coef, coef_exp, power, mass) ==
    [segment |-> segment, coef |-> coef, coef_exp |-> coef_exp, power |-> power,
     mass |-> mass]

\* 0 | units.LSun
ZeroLuminosity == [segment |-> 0, coef |-> 0, coef_exp |-> 0, power |-> 0, mass |-> 0]

\* A power of a positive mass times a positive coefficient is positive (the
\* smallest value of the fit, near 0.12 MSun, is about 1e-23 LSun, far above the
\* smallest double).
LumPositive(lum) == lum.coef > 0 /\ lum.mass > 0

\* The if / elif chain, with mass in 0.01 MSun.
luminosity_fit_closed(mass) ==
    IF 12 < mass /\ mass <= 24 THEN PowerLaw(1, 170294, 16, 425570, mass)
    ELSE IF 24 < mass /\ mass <= 56 THEN PowerLaw(2, 911137, 0 - 9, 38845, mass)
    ELSE IF 56 < mass /\ mass <= 70 THEN PowerLaw(3, 110021, 0 - 6, 122370, mass)
    ELSE IF 70 < mass /\ mass <= 91 THEN PowerLaw(4, 238690, 0 - 4, 271990, mass)
    ELSE IF 91 < mass /\ mass <= 137 THEN PowerLaw(5, 102477, 0 - 4, 184650, mass)
    ELSE IF 137 < mass /\ mass <= 207 THEN PowerLaw(6, 966362, 0 - 4, 114100, mass)
    ELSE IF 207 < mass /\ mass <= 372 THEN PowerLaw(7, 649335, 0 - 2, 56147, mass)
    ELSE IF 372 < mass /\ mass <= 1000 THEN PowerLaw(8, 699075, 0 - 1, 38058, mass)
    ELSE IF 1000 < mass /\ mass <= 2020 THEN PowerLaw(9, 973664, 0, 26620, mass)
    ELSE IF 2020 < mass THEN PowerLaw(10, 131175, 2, 17974, mass)
    ELSE ZeroLuminosity
luminosity_fit(mass) ==
    IF 12 < mass /\ mass < 24 THEN PowerLaw(1, 170294, 16, 425570, mass)
    ELSE IF 24 < mass /\ mass < 56 THEN PowerLaw(2, 911137, 0 - 9, 38845, mass)
    ELSE IF 56 < mass /\ mass < 70 THEN PowerLaw(3, 110021, 0 - 6, 122370, mass)
    ELSE IF 70 < mass /\ mass < 91 THEN PowerLaw(4, 238690, 0 - 4, 271990, mass)
    ELSE IF 91 < mass /\ mass < 137 THEN PowerLaw(5, 102477, 0 - 4, 184650, mass)
    ELSE IF 137 < mass /\ mass < 207 THEN PowerLaw(6, 966362, 0 - 4, 114100, mass)
    ELSE IF 207 < mass /\ mass < 372 THEN PowerLaw(7, 649335, 0 - 2, 56147, mass)
    ELSE IF 372 < mass /\ mass < 1000 THEN PowerLaw(8, 699075, 0 - 1, 38058, mass)
    ELSE IF 1000 < mass /\ mass < 2020 THEN PowerLaw(9, 973664, 0, 26620, mass)
    ELSE IF 2020 < mass THEN PowerLaw(10, 131175, 2, 17974, mass)
    ELSE ZeroLuminosity

---------------------------------------------------------------------------
(* Idle values of the parts a specification does not exercise *)

NoWorker == [pc |-> "unstarted", disks |-> <<>>, viscous |-> 0, dt |-> 0, k |-> 0]

PoolIdle ==
    /\ pool_arg = <<>>
    /\ pool_cores = 1
    /\ pool_result = <<>>
    /\ pool_pc = "idle"

DispatchIdle ==
    /\ rd_disks = <<>>
    /\ rd_dt = 0
    /\ rd_pc = "idle"
    /\ rd_i = 0
    /\ disks_pooled = <<>>
    /\ code_queue = <<>>
    /\ unfinished_tasks = 0
    /\ workers = <<>>
    /\ evolve_count = <<>>
    /\ disks0 = <<>>

MainIdle ==
    /\ stars = <<>>
    /\ gravity = <<>>
    /\ stellar_time = 0
    /\ t = 0
    /\ t_end = 0
    /\ dt = 0
    /\ active_disks = 0
    /\ pc = "idle"
    /\ truncated = {}
    /\ encounters_left = 0
    /\ evaluated = {}
    /\ euv_flagged = {}
    /\ euv_added = {}
    /\ copied_encounter = <<>>
    /\ resolved_geom = <<>>
    /\ save_interval = 0
    /\ saved = FALSE

LumIdle ==
    /\ lum_mass = 0
    /\ lum_result = None

---------------------------------------------------------------------------
(* SpecPool: pool_disks applied to every bounded input *)

PoolInit ==
    /\ pool_arg \in InjSeqs(1..MaxPoolDisks, MaxPoolDisks)
    /\ pool_cores \in 1..MaxPoolCores
    /\ pool_result = <<>>
    /\ pool_pc = "call"
    /\ viscous_codes = <<>>
    /\ disks = <<>>
    /\ DispatchIdle
    /\ MainIdle
    /\ LumIdle

PoolCall ==
    /\ pool_pc = "call"
    /\ pool_result' = pool_disks(pool_arg, pool_cores)
    /\ pool_pc' = "returned"
    /\ UNCHANGED <<pool_arg, pool_cores, sharedVars, dispVars, mainVars, lumVars>>

PoolNext == PoolCall

SpecPool == PoolInit /\ [][PoolNext]_vars

---------------------------------------------------------------------------
(* SpecLum: luminosity_fit applied to every mass of the grid *)

LumInit ==
    /\ lum_mass \in 0..MaxLumMass
    /\ lum_result = None
    /\ viscous_codes = <<>>
    /\ disks = <<>>
    /\ PoolIdle
    /\ DispatchIdle
    /\ MainIdle

LumCall ==
    /\ lum_result = None
    /\ lum_result' = luminosity_fit(lum_mass)
    /\ UNCHANGED <<lum_mass, poolVars, sharedVars, dispVars, mainVars>>

LumNext == LumCall

SpecLum == LumInit /\ [][LumNext]_vars

---------------------------------------------------------------------------
(* SpecDispatch: one call run_disks(viscous_codes, active disks, dt) *)

\* Stellar masses of the disked stars, in list order (0.05 and 1.6 MSun alternate).
DispatchStellarMass(d) == IF d % 2 = 1 THEN 10000 ELSE 320000

\* Indices of the disks that are not dispersed, in list order:
\* [d for d in disks if not d.dispersed].
RECURSIVE ActiveFrom(_, _)
ActiveFrom(dsk, k) ==
    IF k > Len(dsk) THEN <<>>
    ELSE (IF dsk[k].dispersed THEN <<>> ELSE <<k>>) \o ActiveFrom(dsk, k + 1)
ActiveDisks_all(dsk) == [k \in 1..Len(dsk) |-> k]
ActiveDisks(dsk) == ActiveFrom(dsk, 1)

DispatchInit ==
    /\ PoolIdle
    /\ MainIdle
    /\ LumIdle
    /\ \E nd \in 1..MaxDisks, ncodes \in 1..MaxCodes, gone \in SUBSET (1..MaxDisks) :
         LET masses == [d \in 1..nd |-> DispatchStellarMass(d)]
             dsk == [d \in 1..nd |->
                       [NewDisk(d, ISqrt(4500 * masses[d]), masses[d] \div 10, masses[d])
                          EXCEPT !.dispersed = (d \in gone),
                                 !.outer_photoevap_rate = 100 * d]]
         IN  /\ gone \subseteq 1..nd
             /\ viscous_codes = SetupCodes(ncodes, masses)
             /\ disks = dsk
             /\ disks0 = dsk
             /\ rd_disks = ActiveDisks(dsk)
             /\ workers = [i \in 1..NumberOfVaders(ncodes, masses) |-> NoWorker]
             /\ evolve_count = [d \in 1..nd |-> 0]
    /\ rd_dt = DT
    /\ rd_pc = "pool"
    /\ rd_i = 0
    /\ disks_pooled = <<>>
    /\ code_queue = <<>>
    /\ unfinished_tasks = 0

\* disks_pooled = pool_disks(disks, len(viscous_codes))
RunDisksPool ==
    /\ rd_pc = "pool"
    /\ disks_pooled' = pool_disks(rd_disks, Len(viscous_codes))
    /\ rd_i' = 1
    /\ rd_pc' = IF Len(viscous_codes) >= 1 THEN "put" ELSE "join"
    /\ UNCHANGED <<mainVars, lumVars, poolVars, sharedVars, rd_disks, rd_dt, code_queue,
                   unfinished_tasks, workers, evolve_count, disks0>>

\* The package queued in iteration i.
Package_code1(i) == [disks |-> disks_pooled[i], viscous |-> 1, dt |-> rd_dt]
Package(i) == [disks |-> disks_pooled[i], viscous |-> i, dt |-> rd_dt]

\* code_queue.put({...}) and the creation of the thread object
RunDisksPut ==
    /\ rd_pc = "put"
    /\ code_queue' = Append(code_queue, Package(rd_i))
    /\ unfinished_tasks' = unfinished_tasks + 1
    /\ rd_pc' = "start"
    /\ UNCHANGED <<mainVars, lumVars, poolVars, sharedVars, rd_disks, rd_dt, rd_i, disks_pooled,
                   workers, evolve_count, disks0>>

RunDisksLoopOn ==
    /\ rd_i' = rd_i + 1
    /\ rd_pc' = IF rd_i + 1 > Len(viscous_codes) THEN "join" ELSE "put"

\* viscous_thread.start() succeeds: the thread will run remote_worker_code
RunDisksStart ==
    /\ rd_pc = "start"
    /\ workers' = [workers EXCEPT ![rd_i].pc = "get"]
    /\ RunDisksLoopOn
    /\ UNCHANGED <<mainVars, lumVars, poolVars, sharedVars, rd_disks, rd_dt, disks_pooled,
                   code_queue, unfinished_tasks, evolve_count, disks0>>

\* viscous_thread.start() raises: the bare except prints and the loop goes on
RunDisksStartFails ==
    /\ rd_pc = "start"
    /\ workers' = [workers EXCEPT ![rd_i].pc = "nostart"]
    /\ RunDisksLoopOn
    /\ UNCHANGED <<mainVars, lumVars, poolVars, sharedVars, rd_disks, rd_dt, disks_pooled,
                   code_queue, unfinished_tasks, evolve_count, disks0>>

\* What code_queue.join() waits for.
JoinReleased_empty == code_queue = <<>>
JoinReleased == unfinished_tasks = 0

\* code_queue.join() returns, and run_disks with it
RunDisksJoin ==
    /\ rd_pc = "join"
    /\ JoinReleased
    /\ rd_pc' = "returned"
    /\ UNCHANGED <<mainVars, lumVars, poolVars, sharedVars, rd_disks, rd_dt, rd_i, disks_pooled,
                   code_queue, unfinished_tasks, workers, evolve_count, disks0>>

\* package = code_queue.get(), and the three reads of it
WorkerGet(w) ==
    /\ workers[w].pc = "get"
    /\ code_queue # <<>>
    /\ LET package == Head(code_queue)
       IN  workers' = [workers EXCEPT ![w] =
                          [pc |-> "loop", disks |-> package.disks,
                           viscous |-> package.viscous, dt |-> package.dt, k |-> 1]]
    /\ code_queue' = Tail(code_queue)
    /\ UNCHANGED <<mainVars, lumVars, poolVars, sharedVars, rd_disks, rd_dt, rd_pc, rd_i,
                   disks_pooled, unfinished_tasks, evolve_count, disks0>>

\* disk.viscous = code, and the call of disk.evolve_disk_for(dt) begins
WorkerBind(w) ==
    /\ workers[w].pc = "loop"
    /\ workers[w].k <= Len(workers[w].disks)
    /\ disks' = [disks EXCEPT ![workers[w].disks[workers[w].k]].viscous = workers[w].viscous]
    /\ workers' = [workers EXCEPT ![w].pc = "evolving"]
    /\ UNCHANGED <<mainVars, lumVars, poolVars, viscous_codes, rd_disks, rd_dt, rd_pc, rd_i, disks_pooled,
                   code_queue, unfinished_tasks, evolve_count, disks0>>

\* disk.evolve_disk_for(dt) returns: the disk was evolved on the code it is bound to
WorkerEvolveReturns(w) ==
    /\ workers[w].pc = "evolving"
    /\ LET d == workers[w].disks[workers[w].k]
       IN  /\ disks' = [disks EXCEPT ![d] =
                           evolve_disk_for(disks[d], viscous_codes[disks[d].viscous],
                                           workers[w].dt)]
           /\ evolve_count' = [evolve_count EXCEPT ![d] = @ + 1]
    /\ workers' = [workers EXCEPT ![w].pc = "loop", ![w].k = @ + 1]
    /\ UNCHANGED <<mainVars, lumVars, poolVars, viscous_codes, rd_disks, rd_dt, rd_pc, rd_i, disks_pooled,
                   code_queue, unfinished_tasks, disks0>>

\* disk.evolve_disk_for(dt) raises: the exception ends the thread
WorkerEvolveRaises(w) ==
    /\ workers[w].pc = "evolving"
    /\ workers' = [workers EXCEPT ![w].pc = "dead"]
    /\ UNCHANGED <<mainVars, lumVars, poolVars, sharedVars, rd_disks, rd_dt, rd_pc, rd_i, disks_pooled,
                   code_queue, unfinished_tasks, evolve_count, disks0>>

\* the for loop is over: code_queue.task_done()
WorkerTaskDone(w) ==
    /\ workers[w].pc = "loop"
    /\ workers[w].k > Len(workers[w].disks)
    /\ unfinished_tasks' = unfinished_tasks - 1
    /\ workers' = [workers EXCEPT ![w].pc = "done"]
    /\ UNCHANGED <<mainVars, lumVars, poolVars, sharedVars, rd_disks, rd_dt, rd_pc, rd_i, disks_pooled,
                   code_queue, evolve_count, disks0>>

remote_worker_code(w) ==
    \/ WorkerGet(w)
    \/ WorkerBind(w)
    \/ WorkerEvolveReturns(w)
    \/ WorkerEvolveRaises(w)
    \/ WorkerTaskDone(w)

DispatchNext ==
    \/ RunDisksPool
    \/ RunDisksPut
    \/ RunDisksStart
    \/ RunDisksStartFails
    \/ RunDisksJoin
    \/ \E w \in DOMAIN workers : remote_worker_code(w)

SpecDispatch == DispatchInit /\ [][DispatchNext]_vars

---------------------------------------------------------------------------
(* Properties of pool_disks (SpecPool) *)

\* C1: pool_disks returns exactly N_cores lists whose concatenation in index
\* order is the input sequence; every disk is in exactly one partition and each
\* partition is a contiguous slice of the input.
PoolPartitionReconstructs ==
    pool_pc = "returned" =>
        /\ Len(pool_result) = pool_cores
        /\ Flatten(pool_result) = pool_arg
        /\ \A d \in Range(pool_arg) :
              Cardinality({i \in 1..Len(pool_result) : d \in Range(pool_result[i])}) = 1
        /\ \A i \in 1..Len(pool_result) :
              \E a \in 1..(Len(pool_arg) + 1) :
                  pool_result[i] = SubSeq(pool_arg, a, a + Len(pool_result[i]) - 1)

\* C1 witness: three disks in an order that is not the sorted one, split unevenly
\* over two workers.
PoolPartitionWitness ==
    /\ pool_pc = "returned"
    /\ pool_arg = <<3, 1, 2>>
    /\ pool_cores = 2
    /\ pool_result = <<(<<3, 1>>), (<<2>>)>>

\* C2: the first (N mod W) partitions have floor(N/W)+1 disks and all the others
\* floor(N/W), so the sizes differ by at most 1.
PoolPartitionSizes ==
    pool_pc = "returned" =>
        /\ \A i \in 1..Len(pool_result) :
              Len(pool_result[i]) =
                  IF i <= Len(pool_arg) % pool_cores
                  THEN (Len(pool_arg) \div pool_cores) + 1
                  ELSE Len(pool_arg) \div pool_cores
        /\ \A i, j \in 1..Len(pool_result) :
              Len(pool_result[i]) - Len(pool_result[j]) <= 1

\* C2 witness: four disks over three workers, sizes 2, 1, 1.
PoolSizesWitness ==
    /\ pool_pc = "returned"
    /\ Len(pool_arg) = 4
    /\ pool_cores = 3
    /\ Len(pool_result[1]) = 2
    /\ Len(pool_result[2]) = 1
    /\ Len(pool_result[3]) = 1

---------------------------------------------------------------------------
(* Properties of run_disks (SpecDispatch) *)

Running(w) == workers[w].pc \in {"loop", "evolving"}
HasTaken(w) == workers[w].pc \in {"loop", "evolving", "done", "dead"}
Physical(disk) == <<disk.disk_radius, disk.disk_mass, disk.dispersed>>

\* C3: when run_disks has returned, every disk passed to it has been evolved
\* exactly once, for dt, and no evolve_disk_for call is still running.
JoinBarrier ==
    rd_pc = "returned" =>
        /\ \A k \in 1..Len(rd_disks) :
              LET d == rd_disks[k]
              IN  /\ evolve_count[d] = 1
                  /\ disks[d].viscous \in DOMAIN viscous_codes
                  /\ disks[d] = evolve_disk_for(
                                    [disks0[d] EXCEPT !.viscous = disks[d].viscous],
                                    viscous_codes[disks[d].viscous], rd_dt)
        /\ \A w \in DOMAIN workers : workers[w].pc \notin {"get", "loop", "evolving"}

\* C3 witness: a call over at least two codes and two disks has returned.
JoinBarrierWitness ==
    /\ rd_pc = "returned"
    /\ Len(viscous_codes) >= 2
    /\ Len(rd_disks) >= 2
    /\ \A k \in 1..Len(rd_disks) : evolve_count[rd_disks[k]] = 1

\* C4: each queued package is taken by at most one worker thread (by exactly one
\* once run_disks has returned); two running worker units never use the same
\* code nor share a disk, and a disk being evolved is bound to the code of the
\* one unit evolving it.
ExclusiveBackendOwnership ==
    /\ \A i \in DOMAIN viscous_codes :
          /\ Cardinality({w \in DOMAIN workers : HasTaken(w) /\ workers[w].viscous = i}) <= 1
          /\ rd_pc = "returned" =>
                Cardinality({w \in DOMAIN workers : HasTaken(w) /\ workers[w].viscous = i}) = 1
    /\ \A t1, t2 \in DOMAIN workers :
          (t1 # t2 /\ Running(t1) /\ Running(t2)) =>
              /\ workers[t1].viscous # workers[t2].viscous
              /\ Range(workers[t1].disks) \cap Range(workers[t2].disks) = {}
    /\ \A w \in DOMAIN workers :
          workers[w].pc = "evolving" =>
              disks[workers[w].disks[workers[w].k]].viscous = workers[w].viscous

\* C4 witness: two worker units are inside evolve_disk_for at the same time.
ExclusiveOwnershipWitness ==
    \E t1, t2 \in DOMAIN workers :
        /\ t1 # t2
        /\ workers[t1].pc = "evolving"
        /\ workers[t2].pc = "evolving"

\* The calling thread waits in code_queue.join() and no thread can ever call
\* task_done() for the tasks that are left.
BlockedForever ==
    /\ rd_pc = "join"
    /\ ~JoinReleased
    /\ \A w \in DOMAIN workers :
          \/ workers[w].pc \in {"unstarted", "nostart", "done", "dead"}
          \/ workers[w].pc = "get" /\ code_queue = <<>>

\* C5: if evolve_disk_for raises inside a worker unit, run_disks ends in a
\* failure outcome: it neither returns as after a successful step nor stays
\* blocked forever at the join.
FatalFailurePolicy ==
    (\E w \in DOMAIN workers : workers[w].pc = "dead") =>
        /\ rd_pc # "returned"
        /\ ~BlockedForever

\* C6: the physical state of every disk after the call is the one the same call
\* yields with a single code, on which every disk is evolved.
WorkerCountInvariance ==
    rd_pc = "returned" =>
        \A k \in 1..Len(rd_disks) :
            Physical(disks[rd_disks[k]]) =
                Physical(evolve_disk_for(disks0[rd_disks[k]], viscous_codes[1], rd_dt))

\* With a single code the call yields exactly the state C6 compares with.
SingleCodeOutcome ==
    (rd_pc = "returned" /\ Len(viscous_codes) = 1) => WorkerCountInvariance

---------------------------------------------------------------------------
(* resolve_encounter *)

Unset == 0 - 1                    \* value of a time attribute that was never assigned

\* The exact k with k^5 = n, for the ratios the mass grid produces.
FifthRoot(n) == CHOOSE k \in 1..16 : k * k * k * k * k = n

\* (m_self / m_other) ** mass_factor_exponent with the default exponent 0.2, as
\* the fraction <<numerator, denominator>>.
MassFactor(m_self, m_other) ==
    IF m_self >= m_other THEN <<FifthRoot(m_self \div m_other), 1>>
                         ELSE <<1, FifthRoot(m_other \div m_self)>>

\* 0.49 * closest_approach
CollisionalRadius_third(closest_approach) == closest_approach \div 3
CollisionalRadius(closest_approach) == (49 * closest_approach) \div 100

\* closest_approach * truncation_parameter * (m_self / m_other) ** 0.2 with the
\* default truncation_parameter 1/3
TruncationRadius(closest_approach, m_self, m_other) ==
    (closest_approach * MassFactor(m_self, m_other)[1])
        \div (3 * MassFactor(m_self, m_other)[2])

\* 0.1 au, the radius at or below which a disk counts as dispersed
DispersalFloor == 100

\* Disk.truncate(new_radius): the disk keeps the part of its profile inside
\* new_radius; its mass shrinks in proportion.  It works in place and returns
\* the disk itself.
truncate(disk, new_radius) ==
    [disk EXCEPT !.disk_radius = new_radius,
                 !.disk_mass = IF disk.disk_radius = 0 THEN 0
                               ELSE (disk.disk_mass * new_radius) \div disk.disk_radius]

\* The body of `for i in range(2)` for one star: `star` is stars[i], `disk` is
\* disks[i] (None for a star passed without a disk), other_mass is stars[1-i].mass.
\* Yields the star and the disk after the iteration and whether truncate() ran.
ResolveStar_flagFromTest(star, disk, other_mass, closest_approach, time) ==
    LET star1 == [star EXCEPT !.collisional_radius = CollisionalRadius(closest_approach)]
        truncation_radius == TruncationRadius(closest_approach, star.mass, other_mass)
        disk0 == IF disk = None THEN None
                 ELSE [disk EXCEPT !.dispersed = (truncation_radius <= DispersalFloor)]
    IN  IF disk = None THEN [star |-> star1, disk |-> None, truncate |-> FALSE]
        ELSE IF ~(truncation_radius < disk.disk_radius)
             THEN [star |-> star1, disk |-> disk0, truncate |-> FALSE]
        ELSE LET star2 == IF truncation_radius <= DispersalFloor
                          THEN [star1 EXCEPT !.disk_radius = truncation_radius,
                                             !.disk_mass = 0,
                                             !.dispersal_time = time,
                                             !.truncation_mass_loss = 0,
                                             !.cumulative_truncation_mass_loss = @ + 0]
                          ELSE star1
                 new_disk == truncate(disk0, truncation_radius)
             IN  [star |-> [star2 EXCEPT !.last_encounter = time,
                                         !.disk_radius = new_disk.disk_radius,
                                         !.disk_mass = new_disk.disk_mass],
                  disk |-> new_disk,
                  truncate |-> TRUE]
ResolveStar_floor1au(star, disk, other_mass, closest_approach, time) ==
    LET star1 == [star EXCEPT !.collisional_radius = CollisionalRadius(closest_approach)]
        truncation_radius == TruncationRadius(closest_approach, star.mass, other_mass)
    IN  IF disk = None THEN [star |-> star1, disk |-> None, truncate |-> FALSE]
        ELSE IF ~(truncation_radius < disk.disk_radius)
             THEN [star |-> star1, disk |-> disk, truncate |-> FALSE]
        ELSE LET isDispersed == truncation_radius <= 10 * DispersalFloor
                 disk1 == IF isDispersed THEN [disk EXCEPT !.dispersed = TRUE] ELSE disk
                 star2 == IF isDispersed
                          THEN [star1 EXCEPT !.disk_radius = truncation_radius,
                                             !.disk_mass = 0,
                                             !.dispersal_time = time,
                                             !.truncation_mass_loss = 0,
                                             !.cumulative_truncation_mass_loss = @ + 0]
                          ELSE star1
                 new_disk == truncate(disk1, truncation_radius)
             IN  [star |-> [star2 EXCEPT !.last_encounter = time,
                                         !.disk_radius = new_disk.disk_radius,
                                         !.disk_mass = new_disk.disk_mass],
                  disk |-> new_disk,
                  truncate |-> TRUE]
ResolveStar_noTest(star, disk, other_mass, closest_approach, time) ==
    LET star1 == [star EXCEPT !.collisional_radius = CollisionalRadius(closest_approach)]
        truncation_radius == TruncationRadius(closest_approach, star.mass, other_mass)
    IN  IF disk = None THEN [star |-> star1, disk |-> None, truncate |-> FALSE]
        ELSE LET isDispersed == truncation_radius <= DispersalFloor
                 disk1 == IF isDispersed THEN [disk EXCEPT !.dispersed = TRUE] ELSE disk
                 star2 == IF isDispersed
                          THEN [star1 EXCEPT !.disk_radius = truncation_radius,
                                             !.disk_mass = 0,
                                             !.dispersal_time = time,
                                             !.truncation_mass_loss = 0,
                                             !.cumulative_truncation_mass_loss = @ + 0]
                          ELSE star1
                 new_disk == truncate(disk1, truncation_radius)
             IN  [star |-> [star2 EXCEPT !.last_encounter = time,
                                         !.disk_radius = new_disk.disk_radius,
                                         !.disk_mass = new_disk.disk_mass],
                  disk |-> new_disk,
                  truncate |-> TRUE]
ResolveStar(star, disk, other_mass, closest_approach, time) ==
    LET \* stars[i].collisional_radius = 0.49 * closest_approach
        star1 == [star EXCEPT !.collisional_radius = CollisionalRadius(closest_approach)]
        truncation_radius == TruncationRadius(closest_approach, star.mass, other_mass)
    IN  IF disk = None THEN [star |-> star1, disk |-> None, truncate |-> FALSE]
        ELSE IF ~(truncation_radius < disk.disk_radius)
             THEN [star |-> star1, disk |-> disk, truncate |-> FALSE]
        ELSE LET isDispersed == truncation_radius <= DispersalFloor
                 \* disks[i].dispersed = True
                 disk1 == IF isDispersed THEN [disk EXCEPT !.dispersed = TRUE] ELSE disk
                 \* stars[i].disk_mass = 0.0 | units.MJupiter comes first
                 zeroed == [star1 EXCEPT !.disk_radius = truncation_radius,
                                         !.disk_mass = 0,
                                         !.dispersal_time = time]
                 \* the two mass-loss fields read the disk_mass just written
                 star2 == IF isDispersed
                          THEN [zeroed EXCEPT
                                   !.truncation_mass_loss = zeroed.disk_mass,
                                   !.cumulative_truncation_mass_loss = @ + zeroed.disk_mass]
                          ELSE star1
                 \* not in an else branch: runs for the dispersed disk as well
                 new_disk == truncate(disk1, truncation_radius)
             IN  [star |-> [star2 EXCEPT !.last_encounter = time,
                                         !.disk_radius = new_disk.disk_radius,
                                         !.disk_mass = new_disk.disk_mass],
                  disk |-> new_disk,
                  truncate |-> TRUE]

\* resolve_encounter(stars, disks, time): both iterations.  The masses the second
\* iteration reads are not written by the first.
resolve_encounter(s0, s1, d0, d1, closest_approach, time) ==
    <<ResolveStar(s0, d0, s1.mass, closest_approach, time),
      ResolveStar(s1, d1, s0.mass, closest_approach, time)>>

---------------------------------------------------------------------------
(* main: setup *)

BrightLimit == 380000                 \* 1.9 MSun
InitialCollisionalRadius == 4125296   \* 0.02 parsec

\* The two-body geometries the encounters of the model have, by the semi-latus
\* rectum p (milli-au) and the eccentricity e that periastron_distance derives
\* from the relative position and velocity.  Zero relative velocity gives zero
\* angular momentum, so p = 0, and a = r/2, so e = sqrt(1 - 0) = 1.  Zero specific
\* energy gives a = -mu/2/0 = -inf in numpy floats, so p/a = 0 and e = 1.
Geometries == {[p |-> 0, e |-> 1], [p |-> 600, e |-> 1], [p |-> 30000, e |-> 0]}

\* The pair has no relative velocity.
ZeroRelativeVelocity(geom) == geom.p = 0

\* periastron_distance(stars): p / (1 + e), with no test on v or E.
periastron_distance(geom) == geom.p \div (1 + geom.e)

\* The clusters of the model: two disked stars, of equal or of different mass,
\* and one bright star.
ClusterMasses == {<<10000, 10000, 11264000>>, <<10000, 320000, 11264000>>}

\* The keys of the stars.
Stars == DOMAIN (CHOOSE m \in ClusterMasses : TRUE)

\* Mass-loss rates the FRIED interpolation may return, in mass units per time unit.
RateValues == {0, 250}

\* Radius the stellar evolution code reports for a bright star.
SeBaRadius(stellar_mass) == 46

\* A particle of the star set as main sets it up before the loop.
NewStar(stellar_mass) ==
    LET bright == stellar_mass > BrightLimit
        disk_mass == IF bright THEN 0 ELSE stellar_mass \div 10
    IN  [stellar_mass |-> stellar_mass,
         bright |-> bright,
         disked |-> ~bright,
         disk_radius |-> IF bright THEN 0 ELSE ISqrt(4500 * stellar_mass),
         disk_mass |-> disk_mass,
         mass |-> stellar_mass + disk_mass,
         collisional_radius |-> InitialCollisionalRadius,
         cumulative_truncation_mass_loss |-> 0,
         cumulative_photoevap_mass_loss |-> 0,
         truncation_mass_loss |-> 0,
         photoevap_Mdot |-> 0,
         EUV |-> FALSE,
         last_encounter |-> Unset,
         dispersal_time |-> Unset]

\* Keys of stars[stars.disked], in the order of the set.
RECURSIVE DiskedFrom(_, _)
DiskedFrom(st, k) ==
    IF k > Len(st) THEN <<>>
    ELSE (IF st[k].disked THEN <<k>> ELSE <<>>) \o DiskedFrom(st, k + 1)
DiskedKeys(st) == DiskedFrom(st, 1)

\* setup_disks_and_codes: one Disk per disked star, in the order of the keys.
SetupDisks(st) ==
    [i \in 1..Len(DiskedKeys(st)) |->
        LET k == DiskedKeys(st)[i]
        IN  NewDisk(k, st[k].disk_radius, st[k].disk_mass, st[k].stellar_mass)]

\* map_disk_indices_to_stars: key of a disk -> its index in the list.
map_disk_indices_to_stars(dsk) ==
    [k \in {dsk[i].key : i \in DOMAIN dsk} |-> CHOOSE i \in DOMAIN dsk : dsk[i].key = k]
disk_indices == map_disk_indices_to_stars(disks)

\* channel_from_framework_to_gravity.copy(): collisional_radius -> radius
CopyFrameworkToGravity(st, grav) ==
    [grav EXCEPT !.radius = [s \in DOMAIN st |-> st[s].collisional_radius]]

\* channel_from_stellar_to_gravity.copy(): the stellar code holds the bright stars
CopyStellarToGravity(st, grav) ==
    [grav EXCEPT !.radius = [s \in DOMAIN st |->
        IF st[s].bright THEN SeBaRadius(st[s].stellar_mass) ELSE grav.radius[s]]]

NoGeometry == [p |-> 0, e |-> 0]
NoEncounter == [is_set |-> FALSE, p0 |-> 0, p1 |-> 0, geom |-> NoGeometry]

\* The encounter budget of a run in which the gravity code may report an
\* encounter at every call.
Unlimited == 0 - 1

\* The state when the loop is entered, for a cluster of `clusters`, an end time
\* of `ends` and a save interval of `intervals`, in a run in which the gravity
\* code reports at most `budget` encounters.  The snapshot of t = 0 is written.
InitWith(clusters, ends, intervals, budget) ==
    /\ PoolIdle
    /\ DispatchIdle
    /\ LumIdle
    /\ \E masses \in clusters :
         LET st == [s \in Stars |-> NewStar(masses[s])]
             dsk == SetupDisks(st)
         IN  /\ stars = st
             /\ disks = dsk
             /\ viscous_codes =
                   SetupCodes(NCODES, [i \in DOMAIN dsk |-> dsk[i].central_mass])
             /\ gravity = CopyStellarToGravity(st, CopyFrameworkToGravity(st,
                   [radius |-> [s \in Stars |-> 0], model_time |-> 0,
                    encounter |-> NoEncounter]))
             /\ active_disks = Len(DiskedKeys(st))
    /\ stellar_time = 0
    /\ t = 0
    /\ t_end \in ends
    /\ dt = DT
    /\ pc = "while"
    /\ truncated = {}
    /\ encounters_left = budget
    /\ evaluated = {}
    /\ euv_flagged = {}
    /\ euv_added = {}
    /\ copied_encounter = NoEncounter
    /\ resolved_geom = NoGeometry
    /\ save_interval \in intervals
    /\ saved = TRUE

Init ==
    InitWith(ClusterMasses, {2 * k : k \in (MaxTEnd - 1)..MaxTEnd}, {SAVE_INTERVAL},
             MaxEncounters)

---------------------------------------------------------------------------
(* main: the evolution loop *)

\* dt = min(dt, t_end - t)
StepSize_unclamped(step, remaining) == step
StepSize(step, remaining) == Min(step, remaining)

\* while t < t_end: dt = min(dt, t_end - t)
LoopTest ==
    /\ pc = "while"
    /\ IF t < t_end
       THEN /\ dt' = StepSize(dt, t_end - t)
            /\ pc' = "stellar1"
            /\ evaluated' = {}
            /\ euv_flagged' = {}
            /\ euv_added' = {}
       ELSE /\ pc' = "done"
            /\ UNCHANGED <<dt, stepVars>>
    /\ UNCHANGED <<lumVars, drainVars, saveVars, poolVars, sharedVars, dispVars, stars, gravity, stellar_time, t,
                   t_end, active_disks, truncated, encounters_left>>

\* stellar.evolve_model(t + dt/2) and the two copies
StellarFirstHalf ==
    /\ pc = "stellar1"
    /\ stellar_time' = Max(stellar_time, t + dt \div 2)
    /\ gravity' = CopyStellarToGravity(stars, gravity)
    /\ pc' = "gravity"
    /\ UNCHANGED <<lumVars, drainVars, saveVars, stepVars, poolVars, sharedVars, dispVars, stars, t, t_end, dt, active_disks,
                   truncated, encounters_left>>

\* gravity.evolve_model(target): the code reaches the target time, or stops
\* before it with the collision condition set for a pair closer than the sum of
\* the radii it holds; the pair's periastron is no larger than its separation.
GravityEvolveModel(target) ==
    \/ /\ gravity' = [gravity EXCEPT !.model_time = Max(gravity.model_time, target),
                                     !.encounter = NoEncounter]
       /\ UNCHANGED encounters_left
    \/ /\ encounters_left # 0
       /\ encounters_left' = IF encounters_left = Unlimited THEN Unlimited
                             ELSE encounters_left - 1
       /\ \E p0 \in Stars, p1 \in Stars, geom \in Geometries, tm \in {target - 1} :
            /\ p0 # p1
            /\ gravity.model_time <= tm
            /\ periastron_distance(geom) < gravity.radius[p0] + gravity.radius[p1]
            /\ gravity' = [gravity EXCEPT
                              !.model_time = tm,
                              !.encounter = [is_set |-> TRUE, p0 |-> p0, p1 |-> p1,
                                             geom |-> geom]]

\* gravity.evolve_model(t + dt); channel_from_gravity_to_framework.copy()
GravityEvolve ==
    /\ pc = "gravity"
    /\ GravityEvolveModel(t + dt)
    /\ copied_encounter' = gravity'.encounter
    /\ pc' = "drain"
    /\ UNCHANGED <<lumVars, resolved_geom, saveVars, stepVars, poolVars, sharedVars, dispVars, stars, stellar_time, t, t_end, dt,
                   active_disks, truncated>>

\* The geometries that the positions and velocities held by `stars` can give
\* for the pair k0, k1 the gravity code reports.  s0 and s1 are particles of
\* `stars` (get_intersecting_subset_in(stars)), whose positions are those of the
\* copy at the head of the drain loop: for the pair reported then, its geometry
\* at that moment; for another pair, whatever those positions give.
FrameworkGeometries(k0, k1) ==
    IF {k0, k1} = {copied_encounter.p0, copied_encounter.p1}
    THEN {copied_encounter.geom}
    ELSE Geometries

\* One pass of `while dynamical_encounter.is_set()` up to resolve_encounter: the
\* pair is classified by the disked flags and resolved.
ResolveEncounter ==
    /\ pc = "drain"
    /\ gravity.encounter.is_set
    /\ \E geom \in FrameworkGeometries(gravity.encounter.p0, gravity.encounter.p1) :
       LET k0 == gravity.encounter.p0
           k1 == gravity.encounter.p1
           s0 == stars[k0]
           s1 == stars[k1]
           disk0 == IF s0.disked THEN disks[disk_indices[k0]] ELSE None
           disk1 == IF s1.disked THEN disks[disk_indices[k1]] ELSE None
           r == resolve_encounter(s0, s1, disk0, disk1,
                                  periastron_distance(geom),
                                  gravity.model_time + T_INI)
       IN  /\ resolved_geom' = geom
           /\ stars' = [stars EXCEPT ![k0] = r[1].star, ![k1] = r[2].star]
           /\ disks' = [i \in DOMAIN disks |->
                           IF s0.disked /\ i = disk_indices[k0] THEN r[1].disk
                           ELSE IF s1.disked /\ i = disk_indices[k1] THEN r[2].disk
                           ELSE disks[i]]
           /\ truncated' =
                  {disk_indices[k] : k \in {x \in {k0} : r[1].truncate}
                                           \cup {x \in {k1} : r[2].truncate}}
    /\ pc' = "regravity"
    /\ UNCHANGED <<lumVars, copied_encounter, saveVars, stepVars, poolVars, viscous_codes, dispVars, gravity, stellar_time, t, t_end,
                   dt, active_disks, encounters_left>>

\* gravity.evolve_model(t + dt) at the end of the pass
GravityReEvolve ==
    /\ pc = "regravity"
    /\ GravityEvolveModel(t + dt)
    /\ pc' = "drain"
    /\ UNCHANGED <<lumVars, drainVars, saveVars, stepVars, poolVars, sharedVars, dispVars, stars, stellar_time, t, t_end, dt,
                   active_disks, truncated>>

\* the condition is clear: channel_from_framework_to_gravity.copy()
DrainDone ==
    /\ pc = "drain"
    /\ ~gravity.encounter.is_set
    /\ gravity' = CopyFrameworkToGravity(stars, gravity)
    /\ copied_encounter' = NoEncounter
    /\ resolved_geom' = NoGeometry
    /\ pc' = "photoevap"
    /\ UNCHANGED <<lumVars, saveVars, stepVars, poolVars, sharedVars, dispVars, stars, stellar_time, t, t_end, dt,
                   active_disks, truncated, encounters_left>>

\* The EUV term of single_photoevaporation_mass_loss,
\* 2e-9 * 3 * 4.12 * (disk_radius[cm] / 1e14) MSun/yr, in mass units per time
\* unit (1.849e-4 per milli-au), rounded down.
EUVTerm(disk_radius) == (disk_radius * 1849) \div 10000000

\* single_total_radiation(i) as it runs in a worker process of the pool: `st` is
\* the star set of that process and `near` the stars closer than dmin to some
\* bright star.  Yields the star set of the process after the task.
single_total_radiation(st, i, near) ==
    IF st[i].bright THEN st
    ELSE [st EXCEPT ![i].EUV = (@ \/ i \in near)]

\* single_photoevaporation_mass_loss(i) as it runs in a worker process: `st` is
\* the star set of that process and fuv the rate the FRIED interpolation
\* returns.  Yields the returned rate, whether the EUV term was added, and the
\* star set of the process after the task.
single_photoevaporation_mass_loss(st, i, fuv) ==
    [Mdot |-> fuv + (IF st[i].EUV THEN EUVTerm(st[i].disk_radius) ELSE 0),
     euv |-> st[i].EUV,
     stars |-> [st EXCEPT ![i].EUV = FALSE]]

\* The star set of the calling process after pool.map(...) in total_radiation:
\* the tasks ran in forked processes (multiprocessing.Pool), each on its own copy
\* of the global `stars`; `parent` is the caller's set, `child` what the workers
\* made of their copies.
RadiationPoolStars_inProcess(parent, child) == child
RadiationPoolStars(parent, child) == parent

\* The same for pool.map(...) in photoevaporation_mass_loss.
MassLossPoolStars(parent, child) == parent

\* for k in disk_indices: disks[disk_indices[k]].outer_photoevap_rate =
\* stars[stars.key == k].photoevap_Mdot
WriteRates_none(dsk, st) == dsk
WriteRates(dsk, st) ==
    [i \in DOMAIN dsk |->
        [dsk[i] EXCEPT !.outer_photoevap_rate = st[dsk[i].key].photoevap_Mdot]]

\* The photoevaporation block: total_radiation and photoevaporation_mass_loss
\* over stars[stars.disked].key, the rate added to the cumulative counter of
\* every disked star, then written on every disk of disk_indices.
Photoevaporation ==
    /\ pc = "photoevap"
    /\ LET keys == {s \in Stars : stars[s].disked}
       IN  \E rate \in [Stars -> RateValues], near \in SUBSET keys :
         LET \* a pool of worker processes forked from the caller
             radChild == [s \in Stars |->
                            IF s \in keys THEN single_total_radiation(stars, s, near)[s]
                            ELSE stars[s]]
             st1 == RadiationPoolStars(stars, radChild)
             \* a second pool, forked from the caller after the first was joined
             ml == [s \in keys |-> single_photoevaporation_mass_loss(st1, s, rate[s])]
             mlChild == [s \in Stars |-> IF s \in keys THEN ml[s].stars[s] ELSE st1[s]]
             st2 == MassLossPoolStars(st1, mlChild)
             st == [s \in Stars |->
                      IF s \in keys
                      THEN [st2[s] EXCEPT
                              !.photoevap_Mdot = ml[s].Mdot,
                              !.cumulative_photoevap_mass_loss = @ + ml[s].Mdot * dt]
                      ELSE st2[s]]
         IN  /\ \A s \in Stars : s \notin keys => rate[s] = 0
             /\ stars' = st
             /\ disks' = WriteRates(disks, st)
             /\ evaluated' = keys
             /\ euv_flagged' = {s \in keys : radChild[s].EUV}
             /\ euv_added' = {s \in keys : ml[s].euv}
    /\ pc' = "dispatch"
    /\ UNCHANGED <<lumVars, drainVars, saveVars, poolVars, viscous_codes, dispVars, gravity, stellar_time, t, t_end,
                   dt, active_disks, truncated, encounters_left>>

\* What run_disks(codes, [d for d in disks if not d.dispersed], step) leaves when
\* it returns: every active disk bound to the code of its partition and evolved
\* once on it.
RunDisksOutcome(codes, dsk, step) ==
    LET pooled == pool_disks(ActiveDisks(dsk), Len(codes))
    IN  [d \in DOMAIN dsk |->
            IF \E i \in DOMAIN pooled : d \in Range(pooled[i])
            THEN LET i == CHOOSE i \in DOMAIN pooled : d \in Range(pooled[i])
                 IN  evolve_disk_for([dsk[d] EXCEPT !.viscous = i], codes[i], step)
            ELSE dsk[d]]

\* run_disks(disk_codes, [d for d in disks if not d.dispersed], dt) returns
Dispatch ==
    /\ pc = "dispatch"
    /\ disks' = RunDisksOutcome(viscous_codes, disks, dt)
    /\ pc' = "sync"
    /\ UNCHANGED <<lumVars, drainVars, saveVars, stepVars, poolVars, viscous_codes, dispVars, stars, gravity, stellar_time, t,
                   t_end, dt, active_disks, truncated, encounters_left>>

\* an evolve_disk_for call raises in its thread: run_disks never returns
DispatchBlocks ==
    /\ pc = "dispatch"
    /\ ActiveDisks(disks) # <<>>
    /\ pc' = "blocked"
    /\ UNCHANGED <<lumVars, drainVars, saveVars, stepVars, poolVars, sharedVars, dispVars, stars, gravity, stellar_time, t,
                   t_end, dt, active_disks, truncated, encounters_left>>

\* The body of `for this_star in stars[stars.disked]`.
SyncStar_inverted(this_star, this_disk) ==
    [this_star EXCEPT !.disked = this_disk.dispersed,
                      !.disk_radius = this_disk.disk_radius,
                      !.disk_mass = this_disk.disk_mass]
SyncStar(this_star, this_disk) ==
    [this_star EXCEPT !.disked = ~this_disk.dispersed,
                      !.disk_radius = this_disk.disk_radius,
                      !.disk_mass = this_disk.disk_mass]

\* The book-keeping loop over stars[stars.disked], the copy to gravity, and the
\* second stellar.evolve_model(t + dt/2) with its copies.
Sync ==
    /\ pc = "sync"
    /\ stars' = [s \in Stars |->
                   IF stars[s].disked
                   THEN SyncStar(stars[s], disks[disk_indices[s]])
                   ELSE stars[s]]
    /\ gravity' = CopyStellarToGravity(stars, CopyFrameworkToGravity(stars, gravity))
    /\ stellar_time' = Max(stellar_time, t + dt \div 2)
    /\ pc' = "advance"
    /\ UNCHANGED <<lumVars, drainVars, saveVars, stepVars, poolVars, sharedVars, dispVars, t, t_end, dt, active_disks,
                   truncated, encounters_left>>

\* numpy.around(t.value_in(units.yr)) % save_interval.value_in(units.yr) == 0
SaveDue(time, interval) == time % interval = 0

\* t += dt; active_disks is recounted; the loop breaks, after a snapshot, when
\* none is left; otherwise a snapshot is written if t is a multiple of the
\* save interval
Advance ==
    /\ pc = "advance"
    /\ t' = t + dt
    /\ active_disks' = Len(ActiveDisks(disks))
    /\ pc' = IF active_disks' <= 0 THEN "done" ELSE "while"
    /\ saved' = (active_disks' <= 0 \/ SaveDue(t', save_interval))
    /\ UNCHANGED <<lumVars, drainVars, save_interval, stepVars, poolVars, sharedVars, dispVars, stars, gravity, stellar_time, t_end,
                   dt, truncated, encounters_left>>

Next ==
    \/ LoopTest
    \/ StellarFirstHalf
    \/ GravityEvolve
    \/ ResolveEncounter
    \/ GravityReEvolve
    \/ DrainDone
    \/ Photoevaporation
    \/ Dispatch
    \/ DispatchBlocks
    \/ Sync
    \/ Advance

Spec == Init /\ [][Next]_vars

\* The loop is one sequential thread: whenever it can take a step it does.
\* Save intervals of SpecFair: 750 yr and 1000 yr.
FairSaveIntervals == {3, 4}

InitFair ==
    InitWith({<<10000, 10000, 11264000>>}, {2 * k : k \in (MaxFairTEnd - 1)..MaxFairTEnd},
             FairSaveIntervals, MaxFairEncounters)
SpecFair == InitFair /\ [][Next]_vars /\ WF_vars(Next)

\* The loop with a gravity code that is free to report an encounter at every
\* evolve_model call, whenever a pair is inside the radii it holds.
InitDrain ==
    InitWith({<<10000, 10000, 11264000>>}, {2 * MaxDrainTEnd}, {SAVE_INTERVAL}, Unlimited)
SpecDrain == InitDrain /\ [][Next]_vars /\ WF_vars(Next)

---------------------------------------------------------------------------
(* Properties of resolve_encounter and of the loop (Spec) *)

\* The step in which main calls resolve_encounter.
ResolveStep == pc = "drain" /\ pc' = "regravity"

\* The key of stars[i] of the pair being resolved (i = 0, 1), and the time
\* handed to resolve_encounter.
EncounterKey(i) == IF i = 0 THEN gravity.encounter.p0 ELSE gravity.encounter.p1
EncounterTime == gravity.model_time + T_INI
EncounterTruncationRadius(i) ==
    TruncationRadius(periastron_distance(resolved_geom'),
                     stars[EncounterKey(i)].mass, stars[EncounterKey(1 - i)].mass)

\* C7: no step makes the collisional_radius of a star larger than it was.
CollisionalRadiusNeverIncreases ==
    [][\A s \in Stars : stars'[s].collisional_radius <= stars[s].collisional_radius]_vars

\* C8: a disk whose dispersed flag is true keeps it true in every step.
DispersedIsTerminal ==
    [][\A i \in DOMAIN disks : disks[i].dispersed => disks'[i].dispersed]_vars

\* C8 witness: a disk dispersed by an encounter in an earlier step has since
\* gone through the photoevaporation, dispatch and book-keeping of a later step.
DispersedIsTerminalWitness ==
    /\ pc = "advance"
    /\ \E i \in DOMAIN disks :
          /\ disks[i].dispersed
          /\ ~stars[disks[i].key].disked
          /\ stars[disks[i].key].dispersal_time # Unset
          /\ stars[disks[i].key].dispersal_time < t

\* C9: for a star of the pair passed with its disk, if the disk radius exceeds
\* the truncation radius R_t and R_t > 0.1 au, resolve_encounter truncates the
\* disk at R_t, sets the star's disk_radius and disk_mass from the truncated
\* disk and last_encounter to the encounter time, and leaves the dispersed flag
\* as it was.
TruncationWithoutDispersal ==
    [][ResolveStep =>
        \A i \in {0, 1} :
            LET k == EncounterKey(i)
                R_t == EncounterTruncationRadius(i)
            IN  (/\ stars[k].disked
                 /\ disks[disk_indices[k]].disk_radius > R_t
                 /\ R_t > DispersalFloor)
                => /\ disk_indices[k] \in truncated'
                   /\ disks'[disk_indices[k]] = truncate(disks[disk_indices[k]], R_t)
                   /\ stars'[k].disk_radius = disks'[disk_indices[k]].disk_radius
                   /\ stars'[k].disk_mass = disks'[disk_indices[k]].disk_mass
                   /\ stars'[k].last_encounter = EncounterTime
                   /\ disks'[disk_indices[k]].dispersed = disks[disk_indices[k]].dispersed
                   /\ stars'[k].dispersal_time = stars[k].dispersal_time]_vars

\* C9 witness: resolve_encounter has just truncated a disk at a radius above
\* 0.1 au without dispersing it.
TruncationWithoutDispersalWitness ==
    /\ pc = "regravity"
    /\ \E i \in truncated :
          /\ ~disks[i].dispersed
          /\ disks[i].disk_radius > DispersalFloor
          /\ disks[i].disk_mass > 0
          /\ stars[disks[i].key].disk_radius = disks[i].disk_radius
          /\ stars[disks[i].key].disk_mass = disks[i].disk_mass
          /\ stars[disks[i].key].last_encounter = EncounterTime

\* C10: for a star of the pair passed with its disk, if the truncation radius
\* is at or below 0.1 au and below the disk radius, then after resolve_encounter
\* the disk is dispersed, the star's disk_mass is zero and its dispersal_time is
\* the encounter time, and truncate() was not called on the disk.
DispersalByEncounter ==
    [][ResolveStep =>
        \A i \in {0, 1} :
            LET k == EncounterKey(i)
                R_t == EncounterTruncationRadius(i)
            IN  (/\ stars[k].disked
                 /\ R_t < disks[disk_indices[k]].disk_radius
                 /\ R_t <= DispersalFloor)
                => /\ disks'[disk_indices[k]].dispersed
                   /\ stars'[k].disk_mass = 0
                   /\ stars'[k].dispersal_time = EncounterTime
                   /\ disk_indices[k] \notin truncated']_vars


\* The step in which run_disks is called and returns, and the step of the
\* photoevaporation block.
DispatchStep == pc = "dispatch" /\ pc' = "sync"
PhotoevapStep == pc = "photoevap" /\ pc' = "dispatch"

\* C11: a disk that is dispersed when run_disks is called is in no partition of
\* that call and is not evolved by it, also when an encounter of the same step
\* dispersed it.
DispersedNotDispatched ==
    [][DispatchStep =>
        \A i \in DOMAIN disks :
            disks[i].dispersed
            => /\ disks'[i] = disks[i]
               /\ LET pooled == pool_disks(ActiveDisks(disks), Len(viscous_codes))
                  IN  \A c \in DOMAIN pooled : i \notin Range(pooled[c])]_vars

\* C11 witness: run_disks has returned in the first step; a disk that an
\* encounter of this step dispersed was never bound to a code, while another
\* disk was bound and evolved.
DispersedNotDispatchedWitness ==
    /\ pc = "sync"
    /\ \E i \in DOMAIN disks, j \in DOMAIN disks :
          /\ disks[i].dispersed
          /\ stars[disks[i].key].disked
          /\ stars[disks[i].key].dispersal_time >= t
          /\ disks[i].viscous = 0
          /\ disks[j].viscous # 0

\* C12: once a disk is dispersed, its star is not among the stars handed to the
\* radiation and mass-loss evaluation, the star's cumulative photoevaporation
\* counter does not change, no encounter truncates the disk and its
\* outer_photoevap_rate is not changed.
DispersedExcludedFromBookkeeping ==
    [][\A i \in DOMAIN disks :
          disks[i].dispersed
          => LET k == disks[i].key
             IN  /\ PhotoevapStep => k \notin evaluated'
                 /\ stars'[k].cumulative_photoevap_mass_loss
                       = stars[k].cumulative_photoevap_mass_loss
                 /\ ResolveStep => i \notin truncated'
                 /\ disks'[i].outer_photoevap_rate = disks[i].outer_photoevap_rate]_vars

\* C13: every star has exactly one of bright and disked.
ExactlyOneOfBrightDisked ==
    \A s \in DOMAIN stars : stars[s].bright # stars[s].disked

\* C13, as the code has it: no star is both bright and disked, a bright star has
\* no disk, and a star that is neither is a star whose disk is dispersed.
BrightDiskedExclusive ==
    \A s \in DOMAIN stars :
        /\ ~(stars[s].bright /\ stars[s].disked)
        /\ stars[s].bright => s \notin DOMAIN disk_indices
        /\ (~stars[s].bright /\ ~stars[s].disked)
              => (s \in DOMAIN disk_indices /\ disks[disk_indices[s]].dispersed)

\* C13 witness: the book-keeping loop has cleared the disked flag of a star
\* whose disk is dispersed.
BrightDiskedExclusiveWitness ==
    /\ pc = "advance"
    /\ \E s \in DOMAIN stars :
          /\ ~stars[s].bright
          /\ ~stars[s].disked
          /\ disks[disk_indices[s]].dispersed

\* C14: no star of the shared star set has EUV set once the photoevaporation
\* block of a step is over (the block is one step of the model, so: in no
\* state).
NoEUVLeak == \A s \in DOMAIN stars : ~stars[s].EUV

\* C14 witness: the radiation evaluation of this step set the flag for a star
\* in its worker process, the mass-loss evaluation is over, and no star of the
\* shared set has the flag.
NoEUVLeakWitness ==
    /\ pc = "dispatch"
    /\ euv_flagged # {}
    /\ \A s \in DOMAIN stars : ~stars[s].EUV

\* C15: for every star for which the radiation evaluation of a step set the EUV
\* flag, the mass-loss evaluation of that step sees the flag and adds the EUV
\* term.
EUVConsumedInSameStep ==
    [][PhotoevapStep => \A s \in euv_flagged' : s \in euv_added']_vars

\* C16: when gravity is re-advanced after a resolve_encounter call, the radius
\* it holds for each star of the resolved pair is the collisional radius that
\* call wrote.
ResolvedRadiiVisibleToGravity ==
    pc = "regravity"
    => \A s \in {gravity.encounter.p0, gravity.encounter.p1} :
          gravity.radius[s] = stars[s].collisional_radius

\* C18: resolving a pair with zero relative velocity truncates no disk, marks
\* none dispersed and changes no disk book-keeping field of a star.
DegeneracySkipsTruncation ==
    [][(ResolveStep /\ ZeroRelativeVelocity(resolved_geom'))
        => /\ disks' = disks
           /\ truncated' = {}
           /\ \A s \in Stars :
                 /\ stars'[s].disk_radius = stars[s].disk_radius
                 /\ stars'[s].disk_mass = stars[s].disk_mass
                 /\ stars'[s].dispersal_time = stars[s].dispersal_time
                 /\ stars'[s].last_encounter = stars[s].last_encounter
                 /\ stars'[s].truncation_mass_loss = stars[s].truncation_mass_loss]_vars

\* C20: at every step boundary the stellar evolution code is at the simulation
\* time, as the gravity code is.
StellarAtStepBoundary ==
    pc \in {"while", "done"}
    => /\ stellar_time = t
       /\ stellar_time = gravity.model_time


---------------------------------------------------------------------------
(* Properties of luminosity_fit (SpecLum) *)

\* The segment boundaries 0.12, 0.24, ..., 20.2 MSun, in 0.01 MSun.
SegmentBoundaries == <<12, 24, 56, 70, 91, 137, 207, 372, 1000, 2020>>

\* Segment k is the open interval between boundary k and boundary k + 1; the
\* tenth has no upper end.
InSegment(k, mass) ==
    /\ SegmentBoundaries[k] < mass
    /\ k < 10 => mass < SegmentBoundaries[k + 1]

\* C19: for a mass above 0.12 MSun that is not a segment boundary exactly one
\* segment applies and luminosity_fit returns the positive value of that
\* segment; at or below 0.12 MSun and on a boundary it returns zero.
SegmentSelection ==
    lum_result # None
    => IF lum_mass > 12 /\ lum_mass \notin Range(SegmentBoundaries)
       THEN /\ Cardinality({k \in 1..10 : InSegment(k, lum_mass)}) = 1
            /\ InSegment(lum_result.segment, lum_mass)
            /\ lum_result.mass = lum_mass
            /\ LumPositive(lum_result)
       ELSE lum_result = ZeroLuminosity

\* C19 witness: luminosity_fit has returned zero for a mass on a boundary other
\* than 0.12 MSun.
SegmentSelectionWitness ==
    /\ lum_result = ZeroLuminosity
    /\ lum_mass > 12
    /\ lum_mass \in Range(SegmentBoundaries)


---------------------------------------------------------------------------
(* Further properties of the loop and of resolve_encounter (Spec, SpecFair) *)

\* C21: every disk that run_disks evolves in a step belongs to a star whose
\* mass-loss rate was evaluated in that step, and has that rate as its
\* outer_photoevap_rate when it is evolved.
RateOfSameStep ==
    [][DispatchStep =>
        \A k \in 1..Len(ActiveDisks(disks)) :
            LET i == ActiveDisks(disks)[k]
            IN  /\ disks[i].key \in evaluated
                /\ disks[i].outer_photoevap_rate = stars[disks[i].key].photoevap_Mdot
                /\ disks'[i].disk_mass =
                      Max(0, disks[i].disk_mass - stars[disks[i].key].photoevap_Mdot * dt)]_vars

\* C21 witness: run_disks has returned in a step in which a disk was evolved
\* with a positive rate, evaluated in this step.
RateOfSameStepWitness ==
    /\ pc = "sync"
    /\ \E i \in DOMAIN disks :
          /\ disks[i].viscous # 0
          /\ disks[i].key \in evaluated
          /\ stars[disks[i].key].photoevap_Mdot > 0
          /\ disks[i].outer_photoevap_rate = stars[disks[i].key].photoevap_Mdot

\* C22: a step that takes the simulation time across a multiple of the save
\* interval ends with a snapshot.
SnapshotWhenIntervalCrossed ==
    [][(/\ pc = "advance"
        /\ \E k \in 1..t' : t < k * save_interval /\ k * save_interval <= t')
       => saved']_vars

\* C23: when resolve_encounter disperses the disk of a star, the star's
\* truncation_mass_loss is the disk mass the star had before the call, and its
\* cumulative_truncation_mass_loss has grown by that mass.
DispersalRecordsLostMass ==
    [][ResolveStep =>
        \A i \in {0, 1} :
            LET k == EncounterKey(i)
                R_t == EncounterTruncationRadius(i)
            IN  (/\ stars[k].disked
                 /\ R_t < disks[disk_indices[k]].disk_radius
                 /\ R_t <= DispersalFloor)
                => /\ stars'[k].truncation_mass_loss = stars[k].disk_mass
                   /\ stars'[k].cumulative_truncation_mass_loss
                         = stars[k].cumulative_truncation_mass_loss + stars[k].disk_mass]_vars

\* C24: resolve_encounter sets collisional_radius to 0.49 * periastron for the
\* stars of the pair passed with a disk and leaves it alone for a star passed
\* without one.
CollisionalRadiusOnlyWithDisk ==
    [][ResolveStep =>
        \A i \in {0, 1} :
            LET k == EncounterKey(i)
            IN  IF stars[k].disked
                THEN stars'[k].collisional_radius
                        = (49 * periastron_distance(resolved_geom')) \div 100
                ELSE stars'[k].collisional_radius = stars[k].collisional_radius]_vars

\* C24, as the code has it: resolve_encounter sets collisional_radius to
\* 0.49 * periastron for both stars of the pair, with or without a disk.
CollisionalRadiusOfBoth ==
    [][ResolveStep =>
        \A i \in {0, 1} :
            stars'[EncounterKey(i)].collisional_radius
                = (49 * periastron_distance(resolved_geom')) \div 100]_vars

\* C24 witness: an encounter of a star without a disk (the bright one) has been
\* resolved at a periastron of 0.3 au or more, and the star's collisional_radius
\* is 0.49 times it.
CollisionalRadiusOfBothWitness ==
    /\ pc = "regravity"
    /\ periastron_distance(resolved_geom) > 0
    /\ \E i \in {0, 1} :
          /\ stars[EncounterKey(i)].bright
          /\ stars[EncounterKey(i)].collisional_radius
                = (49 * periastron_distance(resolved_geom)) \div 100

\* C25: for a star of the pair passed without a disk, or whose disk radius is
\* at most its truncation radius, resolve_encounter calls no truncate() and
\* leaves the star's disk and the star's disk book-keeping fields as they were.
NoTruncationFrame ==
    [][ResolveStep =>
        \A i \in {0, 1} :
            LET k == EncounterKey(i)
                R_t == EncounterTruncationRadius(i)
            IN  (\/ ~stars[k].disked
                 \/ disks[disk_indices[k]].disk_radius <= R_t)
                => /\ k \in DOMAIN disk_indices
                      => /\ disks'[disk_indices[k]] = disks[disk_indices[k]]
                         /\ disk_indices[k] \notin truncated'
                   /\ stars'[k].disk_radius = stars[k].disk_radius
                   /\ stars'[k].disk_mass = stars[k].disk_mass
                   /\ stars'[k].last_encounter = stars[k].last_encounter
                   /\ stars'[k].dispersal_time = stars[k].dispersal_time
                   /\ stars'[k].truncation_mass_loss = stars[k].truncation_mass_loss
                   /\ stars'[k].cumulative_truncation_mass_loss
                         = stars[k].cumulative_truncation_mass_loss]_vars

\* C25 witness: an encounter has been resolved in which a disked star's disk
\* radius was at most its truncation radius, so the disk was not touched, while
\* the other star of the pair was passed without a disk.
NoTruncationFrameWitness ==
    /\ pc = "regravity"
    /\ \E i \in {0, 1} :
          LET k == EncounterKey(i)
              o == EncounterKey(1 - i)
          IN  /\ stars[k].disked
              /\ ~stars[o].disked
              /\ disk_indices[k] \notin truncated
              /\ stars[k].last_encounter = Unset
              /\ disks[disk_indices[k]].disk_radius
                    <= TruncationRadius(periastron_distance(resolved_geom),
                                        stars[k].mass, stars[o].mass)

\* C28: the geometry periastron_distance works on in a resolve_encounter call is
\* the one the reported pair has in the gravity code at the moment of the
\* report.
ResolvesReportedGeometry ==
    [][ResolveStep => resolved_geom' = gravity.encounter.geom]_vars


---------------------------------------------------------------------------
(* Termination of run_disks (SpecDispatch) and of the drain loop (SpecDrain) *)

\* C26: as long as no evolve_disk_for call has raised, run_disks is never left
\* waiting at the join with a task that no thread will finish, also after a
\* viscous_thread.start() that failed.
JoinReleasedDespiteStartFailure ==
    (\A w \in DOMAIN workers : workers[w].pc # "dead") => ~BlockedForever

\* C27: the drain loop of a step ends: whenever the loop is at its test, the
\* step later reaches the radiation evaluation.
DrainLoopTerminates == (pc = "drain") ~> (pc = "photoevap")

=============================================================================
